---- MODULE Spec2Model ----
(***************************************************************************)
(* MacroPad Plus firmware (software/macropad_plus.c): the setup code, the  *)
(* main polling loop with its six key handlers, the rotary encoder and     *)
(* encoder switch handler, and the NeoPixel ring animation.                *)
(*                                                                         *)
(* One action per handler of the loop.  Pin levels are inputs: every       *)
(* PIN_read draws a level from BOOLEAN (TRUE = high).  Each action leaves  *)
(* in fx the calls it made, in program order.                              *)
(*                                                                         *)
(* Spec        the firmware from power-on, no poll history kept            *)
(* SpecKeys    the same, recording the polls of one key (any of the six)   *)
(* SpecSwitch  the same, recording the polls of the encoder switch         *)
(* SpecCon     the same, recording the consumer control report             *)
(* SpecLive    Spec with the loop always running on and every busy-wait    *)
(*             for the detent coming to an end                             *)
(* SpecRing    NEO_encoder_cw / NEO_encoder_ccw applied in any order to    *)
(*             any phase 0..191                                            *)
(***************************************************************************)
EXTENDS Integers, Sequences, FiniteSets, TLC

VARIABLES
  pc,               \* position of main(): "setup", "init", "key1".."key6",
                    \* "enc", "wait", "end", "bootloader"; "ring" under SpecRing
  keylast,          \* key1last .. key6last
  isSwitchPressed,  \* state of rotary encoder switch
  neoencoder,       \* state of NeoPixel ring rotation (uint8_t)
  pixels,           \* colour of each NeoPixel after the last flush
  hidInit,          \* HID_init() has been called
  wdtStarted,       \* WDT_start() has been called
  fx,               \* calls made by the most recent step, in order
  watch,            \* history: the input whose polls are recorded (1..6 key, 7 switch),
                    \* 8 to record the consumer control report instead
  hist,             \* history: polls of the watched input in its current press cycle
  rot,              \* history: rotations applied under SpecRing
  con,              \* history: the consumer code held down over USB, and who pressed it
  lastA,            \* history: the last level read from PIN_ENC_A (2 before the first read)
  down              \* history: the last action fired for input n was its PRESSED action

vars == <<pc, keylast, isSwitchPressed, neoencoder, pixels, hidInit,
          wdtStarted, fx, watch, hist, rot, con, lastA, down>>

(***************************************************************************)
(* Bounds                                                                  *)
(***************************************************************************)
MaxHold == 2        \* polls a watched input may stay pressed after its press
MaxRot == 24        \* rotations per direction counted under SpecRing

(***************************************************************************)
(* Program constants                                                       *)
(***************************************************************************)
NEO_BRIGHT_KEYS == 2
NEO_BRIGHT_ENC == 0
NEO_KEY == <<0, 32, 64, 96, 128, 160>>       \* NEO_KEY1 .. NEO_KEY6
NEO_COUNT == 18
Keys == 1..6
PIN_KEY == <<"PIN_KEY1", "PIN_KEY2", "PIN_KEY3", "PIN_KEY4", "PIN_KEY5", "PIN_KEY6">>
KeyLabel == <<"key1", "key2", "key3", "key4", "key5", "key6">>
SwitchId == 7

(***************************************************************************)
(* Calls: [f: function, s: symbolic argument, x: numeric arguments]        *)
(***************************************************************************)
Call(f, s, x) == [f |-> f, s |-> s, x |-> x]

PIN_read(pin, level) == Call("PIN_read", pin, <<IF level THEN 1 ELSE 0>>)

Names(seq) == [n \in 1..Len(seq) |-> seq[n].f]

First(seq, f) == CHOOSE n \in 1..Len(seq) : seq[n].f = f /\ \A m \in 1..(n-1) : seq[m].f # f

Has(seq, f) == \E n \in 1..Len(seq) : seq[n].f = f

Range(seq) == {seq[n] : n \in 1..Len(seq)}

(***************************************************************************)
(* NeoPixel driver (src/neo.h)                                             *)
(***************************************************************************)
Off == [m |-> "off", h |-> 0, b |-> 0]
White == [m |-> "white", h |-> 0, b |-> 0]
Hue(h, b) == [m |-> "hue", h |-> h, b |-> b]

NEO_writeHue(i, h, b) == Call("NEO_writeHue", "", <<i, h, b>>)
NEO_clearPixel(i) == Call("NEO_clearPixel", "", <<i>>)
NEO_update == Call("NEO_update", "", <<>>)

LedCalls == {"NEO_writeHue", "NEO_clearPixel", "NEO_clearAll", "NEO_update", "NEO_sendByte"}

\* the frame shown after call c has run on frame p
Apply1(p, c) ==
  IF c.f = "NEO_writeHue" THEN [p EXCEPT ![c.x[1]] = Hue(c.x[2], c.x[3])]
  ELSE IF c.f = "NEO_clearPixel" THEN [p EXCEPT ![c.x[1]] = Off]
  ELSE IF c.f = "NEO_clearAll" THEN [n \in DOMAIN p |-> Off]
  ELSE IF c.f = "NEO_sendByte"
    THEN [n \in DOMAIN p |-> IF n < c.x[1] \div 3 THEN White ELSE p[n]]
  ELSE p

\* the frame shown after the calls of seq have run, in order, on frame p
RECURSIVE Apply(_, _)
Apply(p, seq) ==
  IF seq = <<>> THEN p
  ELSE IF Len(seq) = 1 THEN Apply1(p, seq[1])
  ELSE LET h == Len(seq) \div 2
       IN Apply(Apply(p, SubSeq(seq, 1, h)), SubSeq(seq, h + 1, Len(seq)))

(***************************************************************************)
(* Macro functions                                                         *)
(***************************************************************************)
PressedName == <<"KEY1_PRESSED", "KEY2_PRESSED", "KEY3_PRESSED", "KEY4_PRESSED",
                 "KEY5_PRESSED", "KEY6_PRESSED", "ENC_SW_PRESSED">>
ReleasedName == <<"KEY1_RELEASED", "KEY2_RELEASED", "KEY3_RELEASED", "KEY4_RELEASED",
                  "KEY5_RELEASED", "KEY6_RELEASED", "ENC_SW_RELEASED">>
HoldName == <<"KEY1_HOLD", "KEY2_HOLD", "KEY3_HOLD", "KEY4_HOLD",
              "KEY5_HOLD", "KEY6_HOLD", "ENC_SW_HOLD">>

CON_press(code) == Call("CON_press", code, <<>>)
CON_release == Call("CON_release", "", <<>>)
KBD_press(c) == Call("KBD_press", c, <<>>)
KBD_release(c) == Call("KBD_release", c, <<>>)

ConCode == <<"CON_MEDIA_STOP", "CON_MEDIA_PLAY", "CON_MEDIA_PAUSE">>
KbdChar == <<"", "", "", "d", "e", "f">>

KEY_PRESSED(k) ==
  <<Call(PressedName[k], "", <<>>)>>
    \o (IF k <= 3 THEN <<CON_press(ConCode[k])>> ELSE <<KBD_press(KbdChar[k])>>)

KEY_RELEASED(k) ==
  <<Call(ReleasedName[k], "", <<>>)>>
    \o (IF k <= 3 THEN <<CON_release>> ELSE <<KBD_release(KbdChar[k])>>)

KEY_HOLD(k) == <<Call(HoldName[k], "", <<>>)>>

ENC_CW_ACTION == <<Call("ENC_CW_ACTION", "", <<>>), CON_press("CON_VOL_UP")>>
ENC_CW_RELEASED == <<Call("ENC_CW_RELEASED", "", <<>>), CON_release>>
ENC_CCW_ACTION == <<Call("ENC_CCW_ACTION", "", <<>>), CON_press("CON_VOL_DOWN")>>
ENC_CCW_RELEASED == <<Call("ENC_CCW_RELEASED", "", <<>>), CON_release>>
ENC_SW_PRESSED == <<Call("ENC_SW_PRESSED", "", <<>>), CON_press("CON_VOL_MUTE")>>
ENC_SW_RELEASED == <<Call("ENC_SW_RELEASED", "", <<>>), CON_release>>

EventNames ==
  {PressedName[n] : n \in 1..7} \cup {ReleasedName[n] : n \in 1..7}
    \cup {HoldName[n] : n \in 1..6}
    \cup {"ENC_CW_ACTION", "ENC_CW_RELEASED", "ENC_CCW_ACTION", "ENC_CCW_RELEASED"}

\* the events of input w (1..6 key, 7 switch) among the calls of seq, in order
EventsOf(w, seq) ==
  Names(SelectSeq(seq, LAMBDA c : c.f \in {PressedName[w], ReleasedName[w], HoldName[w]}))

\* the events among the calls of seq, in order
Events(seq) == Names(SelectSeq(seq, LAMBDA c : c.f \in EventNames))

\* the level read from pin among the calls of seq (0 low, 1 high, 2 not read)
ReadLevel(seq, pin) ==
  LET at == {n \in 1..Len(seq) : seq[n].f = "PIN_read" /\ seq[n].s = pin}
  IN IF at = {} THEN 2 ELSE seq[CHOOSE n \in at : TRUE].x[1]

NoEvents(seq) == \A n \in 1..Len(seq) : seq[n].f \notin EventNames

(***************************************************************************)
(* NeoPixel ring                                                           *)
(***************************************************************************)
\* value of j when pixel 6+n is written, j a uint8_t starting at p
\* if(j >= 192) j -= 192;
Wrap192(j) == IF j >= 192 THEN j - 192 ELSE j

\* slip: > for >=
NextHue_gt(j) ==
  LET q == (j + 16) % 256
  IN IF q > 192 THEN q - 192 ELSE q

\* one pass of the loop body after the write: j += 16; if(j >= 192) j -= 192;
NextHue(j) == Wrap192((j + 16) % 256)

\* the values of j at the first n writes, j a uint8_t starting at p
AddHue(js) == Append(js, NextHue(js[Len(js)]))

RECURSIVE RingHues(_, _)
RingHues(p, n) == IF n = 1 THEN <<p>> ELSE AddHue(RingHues(p, n - 1))

WriteRing(js) ==
  [n \in 1..Len(js) |-> NEO_writeHue(5 + n, js[n], NEO_BRIGHT_ENC)] \o <<NEO_update>>

\* for(i=6; i<18; i++)
NEO_encoder_update(p) == WriteRing(RingHues(p, 18 - 6))

\* slip: > for >=
NEO_encoder_cw_gt(p) ==
  LET q == (p + 8) % 256
  IN IF q > 192 THEN q - 192 ELSE q

\* slip: the wrap of the other direction
NEO_encoder_cw_sub64(p) ==
  LET q == (p + 8) % 256
  IN IF q >= 192 THEN q - 64 ELSE q

NEO_encoder_cw(p) == Wrap192((p + 8) % 256)

\* slip: the underflow is left uncorrected
NEO_encoder_ccw_nowrap(p) == (p + 256 - 8) % 256

\* slip: the wrap of the other direction
NEO_encoder_ccw_sub192(p) ==
  LET q == (p + 256 - 8) % 256
  IN IF q >= 192 THEN q - 192 ELSE q

NEO_encoder_ccw(p) ==
  LET q == (p + 256 - 8) % 256
  IN IF q >= 192 THEN q - 64 ELSE q

(***************************************************************************)
(* History of the watched input                                            *)
(***************************************************************************)
\* the actions of input w and the commands for its NeoPixel (pixel w-1 of
\* key w) among the calls of seq, in order
Effects(w, seq) ==
  SelectSeq(seq, LAMBDA c :
    \/ c.f \in {PressedName[w], ReleasedName[w], HoldName[w]}
    \/ w \in Keys /\ c.f \in {"NEO_writeHue", "NEO_clearPixel"} /\ c.x[1] = w - 1)

\* one poll: the level read (0 low, 1 high, 2 not read), the events fired and
\* the effects on the input
Poll(w, lvl, calls) ==
  [pin |-> lvl, ev |-> EventsOf(w, calls), eff |-> Effects(w, calls)]

\* a cycle ends with a high read
Finished(h) == h # <<>> /\ h[Len(h)].pin = 1

\* a finished cycle is dropped by the step after the one that ended it
Keep(h) == IF Finished(h) THEN <<>> ELSE h

\* a cycle starts at a low read while the flag is clear
HistNext(w, flag, lvl, calls) ==
  IF watch # w THEN Keep(hist)
  ELSE IF flag THEN Append(Keep(hist), Poll(w, lvl, calls))
  ELSE IF lvl = 0 THEN <<Poll(w, lvl, calls)>>
  ELSE IF lvl = 1 THEN <<>>
  ELSE Keep(hist)

\* the watched input is let go after MaxHold polls in the pressed state
MustRelease(w, flag) == watch = w /\ flag /\ Len(hist) >= MaxHold + 1

Level(pin) == IF pin THEN 1 ELSE 0

(***************************************************************************)
(* History of the consumer control report, of phase A and of the actions   *)
(***************************************************************************)
ConId == 8
EncoderId == 8

NoCon == [code |-> "", src |-> 0]

\* the input whose handler runs at the current position (0 outside the loop),
\* given the calls it makes: 1..6 key, 7 switch, 8 encoder rotation
Source(calls) ==
  IF \E k \in Keys : pc = KeyLabel[k] THEN CHOOSE k \in Keys : pc = KeyLabel[k]
  ELSE IF pc = "enc"
    THEN IF ReadLevel(calls, "PIN_ENC_A") = 0 THEN EncoderId ELSE SwitchId
  ELSE 0

\* the report after call c made for input src: CON_press(code) holds code down,
\* CON_release() lets go of whatever is held
ConAfter(c, call, src) ==
  IF call.f = "CON_press" THEN [code |-> call.s, src |-> src]
  ELSE IF call.f = "CON_release" THEN NoCon
  ELSE c

\* the report after the calls n.. of calls
RECURSIVE ConRun(_, _, _, _)
ConRun(c, calls, src, n) ==
  IF n > Len(calls) THEN c
  ELSE ConRun(ConAfter(c, calls[n], src), calls, src, n + 1)

\* no press on top of a code still held, no release of another input's code
RECURSIVE ConClean(_, _, _, _)
ConClean(c, calls, src, n) ==
  IF n > Len(calls) THEN TRUE
  ELSE /\ calls[n].f = "CON_press" => c = NoCon
       /\ calls[n].f = "CON_release" => c.src = src
       /\ ConClean(ConAfter(c, calls[n], src), calls, src, n + 1)

\* the last level read from PIN_ENC_A once calls are made
LastRead(calls) ==
  IF ReadLevel(calls, "PIN_ENC_A") = 2 THEN lastA ELSE ReadLevel(calls, "PIN_ENC_A")

\* for each input, whether the last of its PRESSED / RELEASED actions was PRESSED
DownAfter(calls) ==
  [n \in 1..7 |->
     LET at == {i \in 1..Len(calls) : calls[i].f \in {PressedName[n], ReleasedName[n]}}
     IN IF at = {} THEN down[n]
        ELSE calls[CHOOSE i \in at : \A j \in at : j <= i].f = PressedName[n]]

\* the histories after a step that makes calls
Track(calls) ==
  /\ con' = IF watch = ConId THEN ConRun(con, calls, Source(calls), 1) ELSE con
  /\ lastA' = LastRead(calls)
  /\ down' = DownAfter(calls)

(***************************************************************************)
(* Setup                                                                   *)
(***************************************************************************)
Boot ==
  /\ pc = "setup"
  /\ keylast = [k \in Keys |-> FALSE]
  /\ isSwitchPressed = FALSE
  /\ neoencoder = 0
  /\ pixels = [n \in 0..(NEO_COUNT - 1) |-> Off]
  /\ hidInit = FALSE
  /\ wdtStarted = FALSE
  /\ fx = <<>>
  /\ hist = <<>>
  /\ rot = [start |-> 0, cw |-> 0, ccw |-> 0, cwFirst |-> TRUE]
  /\ con = NoCon
  /\ lastA = 2
  /\ down = [n \in 1..7 |-> FALSE]

Init == Boot /\ watch = 0

InitKeys == Boot /\ watch \in Keys

InitSwitch == Boot /\ watch = SwitchId

InitCon == Boot /\ watch = ConId

\* for(i=3*NEO_COUNT; i; i--) NEO_sendByte(127): x = <<bytes sent, byte>>
LightAll == <<Call("NEO_sendByte", "", <<3 * NEO_COUNT, 127>>)>>

BOOT_now == "bootloader"

\* slip: the switch level is taken active-high
SetupCalls_activeHigh(sw) ==
  <<Call("NEO_init", "", <<>>), Call("CLK_config", "", <<>>),
    Call("DLY_ms", "", <<10>>), Call("NEO_clearAll", "", <<>>),
    PIN_read("PIN_ENC_SW", sw)>>
    \o (IF sw THEN LightAll \o <<Call("BOOT_now", "", <<>>)>> ELSE <<>>)

SetupCalls(sw) ==
  <<Call("NEO_init", "", <<>>), Call("CLK_config", "", <<>>),
    Call("DLY_ms", "", <<10>>), Call("NEO_clearAll", "", <<>>),
    PIN_read("PIN_ENC_SW", sw)>>
    \o (IF ~sw THEN LightAll \o <<Call("BOOT_now", "", <<>>)>> ELSE <<>>)

Setup ==
  /\ pc = "setup"
  /\ \E sw \in BOOLEAN :
       /\ fx' = SetupCalls(sw)
       /\ pixels' = Apply(pixels, SetupCalls(sw))
       /\ pc' = IF Has(SetupCalls(sw), "BOOT_now") THEN BOOT_now ELSE "init"
  /\ hist' = Keep(hist)
  /\ Track(fx')
  /\ UNCHANGED <<keylast, isSwitchPressed, neoencoder, hidInit, wdtStarted,
                 watch, rot>>

HIDInit ==
  /\ pc = "init"
  /\ fx' = <<Call("HID_init", "", <<>>), Call("DLY_ms", "", <<500>>),
             Call("WDT_start", "", <<>>)>> \o NEO_encoder_update(neoencoder)
  /\ hidInit' = TRUE
  /\ wdtStarted' = TRUE
  /\ pixels' = Apply(pixels, fx')
  /\ pc' = KeyLabel[1]
  /\ hist' = Keep(hist)
  /\ Track(fx')
  /\ UNCHANGED <<keylast, isSwitchPressed, neoencoder, watch, rot>>

(***************************************************************************)
(* Loop: keys                                                              *)
(***************************************************************************)
\* key state changed?
KeyChanged(last, pin) == (~pin) # last

\* slip: the flag is set on every change
KeyLast_set(last, pin) == IF KeyChanged(last, pin) THEN TRUE ELSE last

\* keynlast = !keynlast;
KeyLast(last, pin) == IF KeyChanged(last, pin) THEN ~last ELSE last

\* slip: "if" for "else if", the hold action follows the press
KeyCalls_noElse(k, last, pin) ==
  <<PIN_read(PIN_KEY[k], pin)>> \o
  (IF KeyChanged(last, pin)
     THEN IF KeyLast(last, pin)
            THEN <<NEO_writeHue(k - 1, NEO_KEY[k], NEO_BRIGHT_KEYS), NEO_update>>
                   \o KEY_PRESSED(k)
            ELSE <<NEO_clearPixel(k - 1), NEO_update>> \o KEY_RELEASED(k)
   ELSE <<>>)
  \o (IF KeyLast(last, pin) THEN KEY_HOLD(k) ELSE <<>>)

\* slip: the hold test is inverted
KeyCalls_holdReleased(k, last, pin) ==
  <<PIN_read(PIN_KEY[k], pin)>> \o
  (IF KeyChanged(last, pin)
     THEN IF KeyLast(last, pin)
            THEN <<NEO_writeHue(k - 1, NEO_KEY[k], NEO_BRIGHT_KEYS), NEO_update>>
                   \o KEY_PRESSED(k)
            ELSE <<NEO_clearPixel(k - 1), NEO_update>> \o KEY_RELEASED(k)
   ELSE IF ~last THEN KEY_HOLD(k)
   ELSE <<>>)

\* slip: the action is taken before the NeoPixel is updated
KeyCalls_actionFirst(k, last, pin) ==
  <<PIN_read(PIN_KEY[k], pin)>> \o
  (IF KeyChanged(last, pin)
     THEN IF KeyLast(last, pin)
            THEN KEY_PRESSED(k)
                   \o <<NEO_writeHue(k - 1, NEO_KEY[k], NEO_BRIGHT_KEYS), NEO_update>>
            ELSE KEY_RELEASED(k) \o <<NEO_clearPixel(k - 1), NEO_update>>
   ELSE IF last THEN KEY_HOLD(k)
   ELSE <<>>)

\* slip: every key lights and clears the pixel of key 1
KeyCalls_pixel0(k, last, pin) ==
  <<PIN_read(PIN_KEY[k], pin)>> \o
  (IF KeyChanged(last, pin)
     THEN IF KeyLast(last, pin)
            THEN <<NEO_writeHue(0, NEO_KEY[k], NEO_BRIGHT_KEYS), NEO_update>>
                   \o KEY_PRESSED(k)
            ELSE <<NEO_clearPixel(0), NEO_update>> \o KEY_RELEASED(k)
   ELSE IF last THEN KEY_HOLD(k)
   ELSE <<>>)

\* slip: the key pixel is lit at the brightness of the ring
KeyCalls_ringBright(k, last, pin) ==
  <<PIN_read(PIN_KEY[k], pin)>> \o
  (IF KeyChanged(last, pin)
     THEN IF KeyLast(last, pin)
            THEN <<NEO_writeHue(k - 1, NEO_KEY[k], NEO_BRIGHT_ENC), NEO_update>>
                   \o KEY_PRESSED(k)
            ELSE <<NEO_clearPixel(k - 1), NEO_update>> \o KEY_RELEASED(k)
   ELSE IF last THEN KEY_HOLD(k)
   ELSE <<>>)

KeyCalls(k, last, pin) ==
  <<PIN_read(PIN_KEY[k], pin)>> \o
  (IF KeyChanged(last, pin)
     THEN IF KeyLast(last, pin)
            THEN <<NEO_writeHue(k - 1, NEO_KEY[k], NEO_BRIGHT_KEYS), NEO_update>>
                   \o KEY_PRESSED(k)
            ELSE <<NEO_clearPixel(k - 1), NEO_update>> \o KEY_RELEASED(k)
   ELSE IF last THEN KEY_HOLD(k)
   ELSE <<>>)

HandleKey(k) ==
  /\ pc = KeyLabel[k]
  /\ \E pin \in BOOLEAN :
       /\ MustRelease(k, keylast[k]) => pin
       /\ fx' = KeyCalls(k, keylast[k], pin)
       /\ keylast' = [keylast EXCEPT ![k] = KeyLast(keylast[k], pin)]
       /\ hist' = HistNext(k, keylast[k], Level(pin), fx')
  /\ pixels' = Apply(pixels, fx')
  /\ Track(fx')
  /\ pc' = IF k < 6 THEN KeyLabel[k + 1] ELSE "enc"
  /\ UNCHANGED <<isSwitchPressed, neoencoder, hidInit, wdtStarted, watch, rot>>

(***************************************************************************)
(* Loop: rotary encoder and encoder switch                                 *)
(***************************************************************************)
\* encoder turned?
Turned(a) == ~a

\* slip: the sense of phase B is inverted
Clockwise_inverted(b) == ~b

\* clockwise?
Clockwise(b) == b

\* slip: the release is sent before the wait of 5 ms
RotateCalls_releaseEarly(b, p) ==
  IF Clockwise(b)
    THEN ENC_CW_ACTION \o NEO_encoder_update(NEO_encoder_cw(p))
           \o ENC_CW_RELEASED \o <<Call("DLY_ms", "", <<5>>)>>
    ELSE ENC_CCW_ACTION \o NEO_encoder_update(NEO_encoder_ccw(p))
           \o ENC_CCW_RELEASED \o <<Call("DLY_ms", "", <<5>>)>>

RotateCalls(b, p) ==
  IF Clockwise(b)
    THEN ENC_CW_ACTION \o NEO_encoder_update(NEO_encoder_cw(p))
           \o <<Call("DLY_ms", "", <<5>>)>> \o ENC_CW_RELEASED
    ELSE ENC_CCW_ACTION \o NEO_encoder_update(NEO_encoder_ccw(p))
           \o <<Call("DLY_ms", "", <<5>>)>> \o ENC_CCW_RELEASED

Rotate(b, p) == IF Clockwise(b) THEN NEO_encoder_cw(p) ELSE NEO_encoder_ccw(p)

SwitchNext(flag, sw) ==
  IF ~flag /\ ~sw THEN TRUE
  ELSE IF flag /\ sw THEN FALSE
  ELSE flag

\* slip: the press is taken on the level, not on the change
SwitchCalls_level(flag, sw) ==
  <<PIN_read("PIN_ENC_SW", sw)>> \o
  (IF ~sw THEN ENC_SW_PRESSED
   ELSE IF flag /\ sw THEN ENC_SW_RELEASED
   ELSE <<>>)

SwitchCalls(flag, sw) ==
  <<PIN_read("PIN_ENC_SW", sw)>> \o
  (IF ~flag /\ ~sw THEN ENC_SW_PRESSED
   ELSE IF flag /\ sw THEN ENC_SW_RELEASED
   ELSE <<>>)

\* slip: the switch is polled after a rotation as well
EncoderCalls_alwaysSwitch(a, b, sw, flag, p) ==
  <<PIN_read("PIN_ENC_A", a)>> \o
  (IF Turned(a) THEN <<PIN_read("PIN_ENC_B", b)>> \o RotateCalls(b, p)
   ELSE <<>>)
  \o SwitchCalls(flag, sw)

EncoderCalls(a, b, sw, flag, p) ==
  <<PIN_read("PIN_ENC_A", a)>> \o
  (IF Turned(a) THEN <<PIN_read("PIN_ENC_B", b)>> \o RotateCalls(b, p)
   ELSE SwitchCalls(flag, sw))

EncoderStep(a, b, sw) ==
  /\ MustRelease(SwitchId, isSwitchPressed) => (a /\ sw)
  /\ fx' = EncoderCalls(a, b, sw, isSwitchPressed, neoencoder)
  /\ neoencoder' = IF Turned(a) THEN Rotate(b, neoencoder) ELSE neoencoder
  /\ isSwitchPressed' =
       IF Turned(a) THEN isSwitchPressed ELSE SwitchNext(isSwitchPressed, sw)
  /\ pc' = IF Turned(a) THEN "wait" ELSE "end"
  /\ hist' = HistNext(SwitchId, isSwitchPressed,
                      IF Turned(a) THEN 2 ELSE Level(sw), fx')
  /\ pixels' = Apply(pixels, fx')
  /\ Track(fx')
  /\ UNCHANGED <<keylast, hidInit, wdtStarted, watch, rot>>

\* PIN_ENC_B is read only after a low PIN_ENC_A, PIN_ENC_SW only after a high one
HandleEncoder ==
  /\ pc = "enc"
  /\ \E a \in BOOLEAN :
       IF Turned(a) THEN \E b \in BOOLEAN : EncoderStep(a, b, TRUE)
       ELSE \E sw \in BOOLEAN : EncoderStep(a, TRUE, sw)

\* slip: "if" for "while", phase A is tested once
Waiting_once(a) == FALSE

\* the condition of the busy-wait: !PIN_read(PIN_ENC_A)
Waiting(a) == ~a

\* while(!PIN_read(PIN_ENC_A));
WaitDetent ==
  /\ pc = "wait"
  /\ \E a \in BOOLEAN :
       /\ fx' = <<PIN_read("PIN_ENC_A", a)>>
       /\ pc' = IF Waiting(a) THEN "wait" ELSE "end"
  /\ hist' = Keep(hist)
  /\ Track(fx')
  /\ UNCHANGED <<keylast, isSwitchPressed, neoencoder, pixels, hidInit,
                 wdtStarted, watch, rot>>

\* slip: the watchdog is reset before the wait
EndCalls_resetFirst == <<Call("WDT_reset", "", <<>>), Call("DLY_ms", "", <<1>>)>>

\* DLY_ms(1); WDT_reset();
EndCalls == <<Call("DLY_ms", "", <<1>>), Call("WDT_reset", "", <<>>)>>

EndLoop ==
  /\ pc = "end"
  /\ fx' = EndCalls
  /\ pc' = KeyLabel[1]
  /\ hist' = Keep(hist)
  /\ Track(fx')
  /\ UNCHANGED <<keylast, isSwitchPressed, neoencoder, pixels, hidInit,
                 wdtStarted, watch, rot>>

Next ==
  \/ Setup
  \/ HIDInit
  \/ \E k \in Keys : HandleKey(k)
  \/ HandleEncoder
  \/ WaitDetent
  \/ EndLoop

Spec == Init /\ [][Next]_vars

TypeOK ==
  /\ pc \in {"setup", "init", "enc", "wait", "end", "bootloader", "ring"}
              \cup {KeyLabel[k] : k \in Keys}
  /\ keylast \in [Keys -> BOOLEAN]
  /\ isSwitchPressed \in BOOLEAN
  /\ neoencoder \in 0..255
  /\ watch \in 0..8
  /\ lastA \in 0..2
  /\ down \in [1..7 -> BOOLEAN]

SpecKeys == InitKeys /\ [][Next]_vars

SpecSwitch == InitSwitch /\ [][Next]_vars

SpecCon == InitCon /\ [][Next]_vars

\* the handler at the current position runs to its end and the program
\* goes on to the next position (the busy-wait apart)
Runs ==
  /\ pc \in {"setup", "init", "enc", "end"} \cup {KeyLabel[k] : k \in Keys}
  /\ pc' \in {"init", "enc", "wait", "end", BOOT_now} \cup {KeyLabel[k] : k \in Keys}

\* the busy-wait reads phase A high
Leaves == pc = "wait" /\ pc' = "end"

\* the processor keeps running, and phase A is read high again some time
\* after every turn
SpecLive ==
  /\ Init
  /\ [][Next]_vars
  /\ WF_pc(Runs)
  /\ WF_pc(Leaves)

(***************************************************************************)
(* The ring functions on their own: any phase 0..191, any order of calls   *)
(***************************************************************************)
InitRing ==
  /\ pc = "ring"
  /\ neoencoder \in 0..191
  /\ rot = [start |-> neoencoder, cw |-> 0, ccw |-> 0, cwFirst |-> TRUE]
  /\ keylast = [k \in Keys |-> FALSE]
  /\ isSwitchPressed = FALSE
  /\ pixels = Apply([n \in 0..(NEO_COUNT - 1) |-> Off], NEO_encoder_update(neoencoder))
  /\ hidInit = TRUE
  /\ wdtStarted = TRUE
  /\ fx = <<>>
  /\ watch = 0
  /\ hist = <<>>
  /\ con = NoCon
  /\ lastA = 2
  /\ down = [n \in 1..7 |-> FALSE]

\* NEO_encoder_cw()
RingCW ==
  /\ pc = "ring"
  /\ rot.cw < MaxRot
  /\ neoencoder' = NEO_encoder_cw(neoencoder)
  /\ fx' = NEO_encoder_update(neoencoder')
  /\ pixels' = Apply(pixels, fx')
  /\ rot' = [rot EXCEPT !.cw = @ + 1, !.cwFirst = @ /\ rot.ccw = 0]
  /\ UNCHANGED <<pc, keylast, isSwitchPressed, hidInit, wdtStarted, watch, hist,
                 con, lastA, down>>

\* NEO_encoder_ccw()
RingCCW ==
  /\ pc = "ring"
  /\ rot.ccw < MaxRot
  /\ neoencoder' = NEO_encoder_ccw(neoencoder)
  /\ fx' = NEO_encoder_update(neoencoder')
  /\ pixels' = Apply(pixels, fx')
  /\ rot' = [rot EXCEPT !.ccw = @ + 1]
  /\ UNCHANGED <<pc, keylast, isSwitchPressed, hidInit, wdtStarted, watch, hist,
                 con, lastA, down>>

NextRing == RingCW \/ RingCCW

SpecRing == InitRing /\ [][NextRing]_vars

(***************************************************************************)
(* Ring phase                                                              *)
(***************************************************************************)
\* C3: in every reachable state of the firmware, whatever rotations were made
\* and in whatever order, neoencoder lies in 0..191.
RingPhaseInRange == neoencoder \in 0..191

\* a counter-clockwise step from phase 0 has just wrapped to 184
RingWrappedBelowZero ==
  /\ pc = "wait"
  /\ Has(fx, "ENC_CCW_ACTION")
  /\ neoencoder = 184

\* C4: from phase 0, k calls of NEO_encoder_cw and none of NEO_encoder_ccw
\* leave the phase at (8*k) mod 192; every single call maps p to (p+8) mod 192.
ClockwisePhase ==
  /\ [](rot.start = 0 /\ rot.ccw = 0 => neoencoder = (8 * rot.cw) % 192)
  /\ [][rot'.cw = rot.cw + 1 => neoencoder' = (neoencoder + 8) % 192]_vars

\* 24 clockwise calls from phase 0 have wrapped the phase back to 0
ClockwiseFullTurn ==
  rot.start = 0 /\ rot.ccw = 0 /\ rot.cw = 24 /\ neoencoder = 0

\* C5: NEO_encoder_ccw maps every phase p in 0..191 to (p-8) mod 192, phase 0
\* to 184; below 8 the result is the 8-bit difference p-8+256 less 64.
CounterClockwisePhase ==
  [][rot'.ccw = rot.ccw + 1 =>
       /\ neoencoder' = (neoencoder - 8) % 192
       /\ neoencoder = 0 => neoencoder' = 184
       /\ neoencoder < 8 => neoencoder' = ((neoencoder + 256 - 8) % 256) - 64]_vars

\* one counter-clockwise call from phase 0 has given 184
CounterClockwiseFromZero ==
  rot.start = 0 /\ rot.cw = 0 /\ rot.ccw = 1 /\ neoencoder = 184

\* C6: from phase 0, k clockwise calls followed by k counter-clockwise calls
\* give phase 0 again; one call each way, in either order, restores any phase.
RoundTrip ==
  /\ rot.start = 0 /\ rot.cwFirst /\ rot.cw = rot.ccw => neoencoder = 0
  /\ rot.cw = 1 /\ rot.ccw = 1 => neoencoder = rot.start

\* 24 clockwise then 24 counter-clockwise calls from phase 0: both wraps taken
RoundTripFullTurn ==
  rot.start = 0 /\ rot.cwFirst /\ rot.cw = 24 /\ rot.ccw = 24 /\ neoencoder = 0

(***************************************************************************)
(* Keys                                                                    *)
(***************************************************************************)
\* C1: a key read low while released and read high at its very next poll has
\* fired exactly its PRESSED and then its RELEASED action, and no HOLD action;
\* the actions of a key are fired by the poll of that key only.
PressThenRelease ==
  /\ watch \in Keys /\ Len(hist) = 2 /\ hist[1].pin = 0 /\ hist[2].pin = 1
       => hist[1].ev \o hist[2].ev = <<PressedName[watch], ReleasedName[watch]>>
  /\ \A k \in Keys :
       EventsOf(k, fx) # <<>> => fx[1].f = "PIN_read" /\ fx[1].s = PIN_KEY[k]

\* key 6 was read low and then high
Key6Tapped ==
  watch = 6 /\ Len(hist) = 2 /\ hist[1].pin = 0 /\ hist[2].pin = 1

\* C2: every poll that reads a key low while its flag is set fires its HOLD
\* action once and nothing else, so N such polls fire N of them; the poll that
\* detects the press fires PRESSED only; HOLD is never fired with the flag clear.
HoldEveryPoll ==
  /\ [](watch \in Keys =>
          /\ \A n \in 1..Len(hist) :
               /\ n = 1 => hist[n].ev = <<PressedName[watch]>>
               /\ n > 1 /\ hist[n].pin = 0 => hist[n].ev = <<HoldName[watch]>>
          /\ Cardinality({n \in 1..Len(hist) : HoldName[watch] \in Range(hist[n].ev)})
               = Cardinality({n \in 2..Len(hist) : hist[n].pin = 0}))
  /\ [][\A k \in Keys :
          Has(fx', HoldName[k]) => pc = KeyLabel[k] /\ keylast[k] /\ keylast'[k]]_vars

\* a key was read low at the press and at the two polls after it
KeyHeldTwoPolls ==
  /\ watch \in Keys
  /\ Len(hist) = 3
  /\ \A n \in 1..3 : hist[n].pin = 0
  /\ hist[2].ev = <<HoldName[watch]>>
  /\ hist[3].ev = <<HoldName[watch]>>

\* C10: on a press and on a release the key's NeoPixel command and its flush
\* come before the PRESSED / RELEASED action, and none comes after it.
LedBeforeAction ==
  \A k \in Keys :
    /\ Has(fx, PressedName[k]) =>
         LET m == First(fx, PressedName[k])
         IN /\ \E i, j \in 1..(m - 1) :
                 /\ i < j
                 /\ fx[i] = NEO_writeHue(k - 1, NEO_KEY[k], NEO_BRIGHT_KEYS)
                 /\ fx[j] = NEO_update
            /\ \A n \in (m + 1)..Len(fx) : fx[n].f \notin LedCalls
    /\ Has(fx, ReleasedName[k]) =>
         LET m == First(fx, ReleasedName[k])
         IN /\ \E i, j \in 1..(m - 1) :
                 /\ i < j
                 /\ fx[i] = NEO_clearPixel(k - 1)
                 /\ fx[j] = NEO_update
            /\ \A n \in (m + 1)..Len(fx) : fx[n].f \notin LedCalls

\* key 4 has just been released while key 1 is down
Key4Released == Has(fx, ReleasedName[4]) /\ keylast[1]

(***************************************************************************)
(* Rotary encoder and encoder switch                                       *)
(***************************************************************************)
\* C7: when the encoder poll reads phase A low, phase B read high gives the
\* clockwise actions and a step of +8, phase B read low the counter-clockwise
\* actions and a step of -8, in every state of the keys, the switch and the ring.
DirectionFromPhaseB ==
  [][pc = "enc" /\ ReadLevel(fx', "PIN_ENC_A") = 0 =>
       /\ ReadLevel(fx', "PIN_ENC_B") = 1 =>
            /\ Events(fx') = <<"ENC_CW_ACTION", "ENC_CW_RELEASED">>
            /\ neoencoder' = (neoencoder + 8) % 192
       /\ ReadLevel(fx', "PIN_ENC_B") = 0 =>
            /\ Events(fx') = <<"ENC_CCW_ACTION", "ENC_CCW_RELEASED">>
            /\ neoencoder' = (neoencoder - 8) % 192
       /\ ReadLevel(fx', "PIN_ENC_B") \in {0, 1}]_vars

\* a counter-clockwise step taken with a key and the switch down
TurnedBackWhilePressed ==
  /\ pc = "wait"
  /\ ReadLevel(fx, "PIN_ENC_A") = 0
  /\ ReadLevel(fx, "PIN_ENC_B") = 0
  /\ keylast[2]
  /\ isSwitchPressed
  /\ neoencoder = 16

\* C8: the switch read low with phase A high in three successive iterations,
\* the flag clear before the first, fires ENC_SW_PRESSED in the first and
\* nothing in the other two; a switch action is fired only when the flag changes.
SwitchPressedOnce ==
  /\ [](watch = SwitchId =>
          /\ hist # <<>> => hist[1].ev = <<"ENC_SW_PRESSED">>
          /\ \A n \in 2..Len(hist) : hist[n].pin \in {0, 2} => hist[n].ev = <<>>)
  /\ [][pc = "enc" /\ EventsOf(SwitchId, fx') # <<>> =>
          isSwitchPressed' # isSwitchPressed]_vars

\* the switch was read low in three successive iterations
SwitchHeldThreePolls ==
  /\ watch = SwitchId
  /\ Len(hist) = 3
  /\ \A n \in 1..3 : hist[n].pin = 0

(***************************************************************************)
(* Bootloader                                                              *)
(***************************************************************************)
\* C9: the switch read low at the check in setup lights every pixel white and
\* enters the bootloader, after which nothing runs: no HID_init, no WDT_start,
\* no action; the switch read high there never enters the bootloader.
BootloaderOnSwitch ==
  /\ [](pc = "bootloader" =>
          /\ \A n \in DOMAIN pixels : pixels[n] = White
          /\ ~hidInit /\ ~wdtStarted
          /\ ~Has(fx, "HID_init") /\ ~Has(fx, "WDT_start") /\ NoEvents(fx)
          /\ ~ENABLED Next)
  /\ [][pc = "setup" =>
          (pc' = "bootloader") = (ReadLevel(fx', "PIN_ENC_SW") = 0)]_vars
  /\ [][pc # "setup" => pc' # "bootloader" \/ pc = "bootloader"]_vars

\* the bootloader was entered with all pixels white
InBootloader == pc = "bootloader" /\ pixels[NEO_COUNT - 1] = White /\ Has(fx, "BOOT_now")
(***************************************************************************)
(* Key 1 tapped: low at one poll, high at the next                         *)
(***************************************************************************)
Key1TapRecorded ==
  /\ watch = 1
  /\ Len(hist) = 2
  /\ hist[1].pin = 0
  /\ hist[2].pin = 1

Key1TapEffects == hist[1].eff \o hist[2].eff

\* C11 as stated: the tap of key 1 gives KEY1_PRESSED, pixel 0 set to hue 0 at
\* brightness 2, KEY1_RELEASED, pixel 0 cleared, in that order
TapActionThenLed ==
  Key1TapRecorded =>
    Key1TapEffects = <<Call("KEY1_PRESSED", "", <<>>), NEO_writeHue(0, 0, 2),
                       Call("KEY1_RELEASED", "", <<>>), NEO_clearPixel(0)>>

\* C11: key 1 read low at one poll and high at the next, starting released,
\* gives exactly: pixel 0 set to hue 0 at brightness 2, KEY1_PRESSED, pixel 0
\* cleared, KEY1_RELEASED, in that order (each pixel command before its action)
TapLedThenAction ==
  Key1TapRecorded =>
    Key1TapEffects = <<NEO_writeHue(0, 0, 2), Call("KEY1_PRESSED", "", <<>>),
                       NEO_clearPixel(0), Call("KEY1_RELEASED", "", <<>>)>>

Key1Tapped == Key1TapRecorded /\ pc = "key2" /\ ~keylast[1] /\ pixels[0] = Off

(***************************************************************************)
(* One rotation                                                            *)
(***************************************************************************)
RotationNames == {"ENC_CW_ACTION", "ENC_CCW_ACTION"}

RotationFired(calls) == \E n \in 1..Len(calls) : calls[n].f \in RotationNames

ReleasedOf(action) ==
  IF action = "ENC_CW_ACTION" THEN "ENC_CW_RELEASED" ELSE "ENC_CCW_RELEASED"

\* the calls from the ACTION at position n to its RELEASED: the ACTION with
\* its consumer code, the ring rendered at phase p, 5 ms, the RELEASED
RotationAt(calls, n, p) ==
  /\ Len(calls) = n + 17
  /\ calls[n + 1].f = "CON_press"
  /\ \A o \in 0..11 :
        /\ calls[n + 2 + o].f = "NEO_writeHue"
        /\ calls[n + 2 + o].x[1] = 6 + o
  /\ calls[n + 2].x[2] = p
  /\ calls[n + 14] = NEO_update
  /\ calls[n + 15] = Call("DLY_ms", "", <<5>>)
  /\ calls[n + 16].f = ReleasedOf(calls[n].f)
  /\ calls[n + 17] = CON_release
  /\ Events(calls) = <<calls[n].f, ReleasedOf(calls[n].f)>>

\* C12: every rotation is, within one step and with nothing else in between:
\* the ACTION of its direction, the ring stepped by 8 and rendered again,
\* a wait of 5 ms, the RELEASED of the same direction; so every ACTION is
\* followed by exactly one RELEASED of its direction before any other event
RotationSequence ==
  /\ [](RotationFired(fx) =>
          \E n \in 1..Len(fx) :
            /\ fx[n].f \in RotationNames
            /\ RotationAt(fx, n, neoencoder))
  /\ [][RotationFired(fx') =>
           /\ fx'[First(fx', "CON_press") - 1].f = "ENC_CW_ACTION"
                 => neoencoder' = (neoencoder + 8) % 192
           /\ fx'[First(fx', "CON_press") - 1].f = "ENC_CCW_ACTION"
                 => neoencoder' = (neoencoder - 8) % 192]_vars

TurnedBothWays ==
  /\ pc = "wait"
  /\ Has(fx, "ENC_CCW_RELEASED")
  /\ neoencoder = 8

(***************************************************************************)
(* From phase A read low to phase A read high                              *)
(***************************************************************************)
KeyEventNames ==
  {PressedName[k] : k \in Keys} \cup {ReleasedName[k] : k \in Keys}
    \cup {HoldName[k] : k \in Keys}

SwitchEventNames == {PressedName[SwitchId], ReleasedName[SwitchId]}

\* nothing of the keys, of the switch or of the watchdog among calls
Blocked(calls) ==
  /\ \A k \in Keys : ReadLevel(calls, PIN_KEY[k]) = 2
  /\ ReadLevel(calls, "PIN_ENC_SW") = 2
  /\ \A n \in 1..Len(calls) :
        calls[n].f \notin KeyEventNames \cup SwitchEventNames \cup {"WDT_reset"}

\* C13: from the poll that reads phase A low up to the read of the
\* busy-wait that finds it high, no key and no switch is polled (flags
\* unchanged, no key event, no switch event) and the watchdog is not reset;
\* switch events are fired only by polls that read phase A high
BusyWaitFrame ==
  /\ [][(pc = "enc" /\ ReadLevel(fx', "PIN_ENC_A") = 0) \/ pc = "wait" =>
           /\ keylast' = keylast
           /\ isSwitchPressed' = isSwitchPressed
           /\ \A k \in Keys : pixels'[k - 1] = pixels[k - 1]
           /\ Blocked(fx')]_vars
  /\ [][(\E n \in 1..Len(fx') : fx'[n].f \in SwitchEventNames) =>
           pc = "enc" /\ ReadLevel(fx', "PIN_ENC_A") = 1]_vars

WaitingWhilePressed ==
  /\ pc = "wait"
  /\ fx = <<PIN_read("PIN_ENC_A", FALSE)>>
  /\ keylast[3]
  /\ isSwitchPressed

(***************************************************************************)
(* Phase A stuck low                                                       *)
(***************************************************************************)
\* C14: while phase A is read low the loop stays in the busy-wait: a read
\* of the busy-wait that finds phase A low fires no event, changes nothing,
\* does not reset the watchdog and reads again; only a high read ends the
\* wait, so with phase A low for ever it never ends
StuckWhileLow ==
  [][pc = "wait" =>
       /\ Len(fx') = 1
       /\ fx'[1].f = "PIN_read"
       /\ fx'[1].s = "PIN_ENC_A"
       /\ (pc' # "wait") = (fx'[1].x[1] = 1)
       /\ UNCHANGED <<keylast, isSwitchPressed, neoencoder, pixels, hidInit,
                      wdtStarted>>]_vars

StuckAfterWrap ==
  /\ pc = "wait"
  /\ fx = <<PIN_read("PIN_ENC_A", FALSE)>>
  /\ lastA = 0
  /\ neoencoder = 184

(***************************************************************************)
(* Consumer control report                                                 *)
(***************************************************************************)
\* C15: at most one consumer code is held at any time: CON_press is never
\* called while a code pressed before is still held, and CON_release only
\* lets go of the code pressed by the same input
OneConsumerCode ==
  [][watch = ConId => ConClean(con, fx', Source(fx'), 1)]_vars

(***************************************************************************)
(* The six keys are handled independently                                  *)
(***************************************************************************)
\* the events of key k at a poll, from its own flag and its own pin level
OwnEvents(k, flag, lvl) ==
  IF ~flag /\ lvl = 0 THEN <<PressedName[k]>>
  ELSE IF flag /\ lvl = 1 THEN <<ReleasedName[k]>>
  ELSE IF flag THEN <<HoldName[k]>>
  ELSE <<>>

\* the pixel of key k after a poll, from its own flag and its own pin level
OwnPixel(k, flag, lvl, pixel) ==
  IF ~flag /\ lvl = 0 THEN Hue(NEO_KEY[k], NEO_BRIGHT_KEYS)
  ELSE IF flag /\ lvl = 1 THEN Off
  ELSE pixel

\* C16: the events, the flag and pixel k-1 of key k after its poll depend
\* only on the level read from its own pin and on its own flag; the poll of
\* key k reads no other pin, fires no event of another input and leaves the
\* flag and the pixel of every other key as they were
KeysIndependent ==
  [][\A k \in Keys : pc = KeyLabel[k] =>
       /\ ReadLevel(fx', PIN_KEY[k]) \in {0, 1}
       /\ \A n \in 1..Len(fx') : fx'[n].f = "PIN_read" => fx'[n].s = PIN_KEY[k]
       /\ Events(fx') = OwnEvents(k, keylast[k], ReadLevel(fx', PIN_KEY[k]))
       /\ keylast'[k] = (ReadLevel(fx', PIN_KEY[k]) = 0)
       /\ pixels'[k - 1] =
            OwnPixel(k, keylast[k], ReadLevel(fx', PIN_KEY[k]), pixels[k - 1])
       /\ \A j \in Keys \ {k} :
            /\ keylast'[j] = keylast[j]
            /\ pixels'[j - 1] = pixels[j - 1]
       /\ \A n \in 6..17 : pixels'[n] = pixels[n]
       /\ isSwitchPressed' = isSwitchPressed
       /\ neoencoder' = neoencoder]_vars

Key5PressedAmongOthers ==
  /\ pc = "key6"
  /\ Has(fx, "KEY5_PRESSED")
  /\ keylast = <<TRUE, FALSE, TRUE, TRUE, TRUE, FALSE>>
  /\ \A k \in Keys : (pixels[k - 1] # Off) = keylast[k]

(***************************************************************************)
(* Rotations and the level of phase A                                      *)
(***************************************************************************)
\* C17: every rotation event comes after a high read of phase A made since
\* boot or since the rotation event before it, so phase A low at the first
\* poll after boot gives no rotation event
RotationOnFallingEdge ==
  [][RotationFired(fx') => lastA = 1]_vars

\* what the loop does: a rotation event is fired by every encoder poll that
\* reads phase A low and by nothing else; the read of phase A before that
\* poll, if there was one, was high, so every run of low reads gives exactly
\* one rotation event, the run that starts at the first poll after boot
\* included
RotationOnLowLevel ==
  /\ [][RotationFired(fx') =>
           /\ pc = "enc"
           /\ ReadLevel(fx', "PIN_ENC_A") = 0
           /\ lastA \in {1, 2}]_vars
  /\ [][pc = "enc" /\ ReadLevel(fx', "PIN_ENC_A") = 0 =>
           /\ RotationFired(fx')
           /\ Len(Events(fx')) = 2]_vars
  /\ [][lastA = 2 /\ lastA' # 2 => pc = "enc"]_vars

(***************************************************************************)
(* Rendering of the ring                                                   *)
(***************************************************************************)
\* C18: every NEO_encoder_update makes exactly thirteen calls: twelve
\* NEO_writeHue on pixels 6..17, pixel 6+o with hue (phase + 16*o) mod 192
\* (so within 0..191) at the brightness of the ring, then one NEO_update;
\* the key pixels 0..5 are not written and the phase is the one rendered
RingRendered ==
  (pc = "ring" /\ fx # <<>>) =>
    /\ Len(fx) = 13
    /\ \A o \in 0..11 :
         /\ fx[o + 1] = NEO_writeHue(6 + o, (neoencoder + 16 * o) % 192, NEO_BRIGHT_ENC)
         /\ fx[o + 1].x[2] \in 0..191
         /\ pixels[6 + o] = Hue((neoencoder + 16 * o) % 192, NEO_BRIGHT_ENC)
    /\ fx[13] = NEO_update
    /\ \A n \in 0..5 : pixels[n] = Off

RenderedOddPhase ==
  /\ pc = "ring"
  /\ Len(fx) = 13
  /\ neoencoder = 191
  /\ pixels[6].h = 191
  /\ pixels[7].h = 15

(***************************************************************************)
(* The loop                                                                *)
(***************************************************************************)
LoopLabels == {KeyLabel[k] : k \in Keys} \cup {"enc", "wait", "end"}

\* C19: once the loop is entered, each iteration polls keys 1..6 in that
\* order, then the encoder, then waits 1 ms and resets the watchdog once as
\* its last step; the loop is never left and, every busy-wait for the detent
\* coming to an end, the watchdog is reset again and again for ever
LoopForever ==
  /\ [][\A k \in Keys : pc = KeyLabel[k] =>
           /\ ReadLevel(fx', PIN_KEY[k]) # 2
           /\ pc' = IF k < 6 THEN KeyLabel[k + 1] ELSE "enc"]_vars
  /\ [][pc = "enc" =>
           /\ ReadLevel(fx', "PIN_ENC_A") # 2
           /\ pc' \in {"wait", "end"}]_vars
  /\ [][pc = "wait" => pc' \in {"wait", "end"}]_vars
  /\ [][pc = "end" =>
           /\ fx' = <<Call("DLY_ms", "", <<1>>), Call("WDT_reset", "", <<>>)>>
           /\ pc' = KeyLabel[1]]_vars
  /\ [][Has(fx', "WDT_reset") => pc = "end"]_vars
  /\ [][(pc \in LoopLabels) => (pc' \in LoopLabels)]_vars
  /\ (pc \in LoopLabels) ~> (pc = "end")
  /\ (pc = "end") ~> (pc = KeyLabel[1] /\ Has(fx, "WDT_reset"))

WatchdogResetAfterTurn ==
  /\ pc = KeyLabel[1]
  /\ Has(fx, "WDT_reset")
  /\ lastA = 1
  /\ neoencoder = 184

(***************************************************************************)
(* PRESSED and RELEASED alternate                                          *)
(***************************************************************************)
Fired(calls, f) == Cardinality({n \in 1..Len(calls) : calls[n].f = f})

\* C20: for every key and for the switch, PRESSED and RELEASED alternate,
\* PRESSED first: PRESSED is fired only when the last of the two was not
\* PRESSED, RELEASED only when it was, one of them at most in a step; the
\* flag of a key after its poll is the pressed level read in it and is
\* changed by no other step, and in the loop the pixel of a key is lit at
\* its hue exactly when its flag is set; the flags of the keys and
\* isSwitchPressed tell which of the two events was the last
EventsAlternate ==
  /\ [][\A n \in 1..7 :
           /\ Fired(fx', PressedName[n]) + Fired(fx', ReleasedName[n]) <= 1
           /\ Has(fx', PressedName[n]) => ~down[n]
           /\ Has(fx', ReleasedName[n]) => down[n]]_vars
  /\ [][\A k \in Keys :
           /\ pc = KeyLabel[k] => keylast'[k] = (ReadLevel(fx', PIN_KEY[k]) = 0)
           /\ pc # KeyLabel[k] => keylast'[k] = keylast[k]]_vars
  /\ [](pc \in LoopLabels =>
          \A k \in Keys :
            pixels[k - 1] = IF keylast[k] THEN Hue(NEO_KEY[k], NEO_BRIGHT_KEYS) ELSE Off)
  /\ [](\A k \in Keys : down[k] = keylast[k])
  /\ [](down[SwitchId] = isSwitchPressed)

Key2ReleasedSwitchDown ==
  /\ pc = "key3"
  /\ Has(fx, "KEY2_RELEASED")
  /\ ~down[2]
  /\ pixels[1] = Off
  /\ down[1]
  /\ down[SwitchId]
  /\ isSwitchPressed

====
